---- MODULE Spec2Model ----
(***************************************************************************)
(* Model of src/event-system.js: the EventBus (publish/subscribe registry) *)
(* and the CacheManager (TTL cache reporting hits and misses on the bus).  *)
(* The specifications share the definitions below: Spec drives the cache   *)
(* and the clock (SpecFair adds a clock that advances and a host that runs *)
(* due callbacks), SpecEvents the cache with subscribers of cache:hit and  *)
(* cache:miss, SpecValid the validating calls of both objects, SpecBus the *)
(* bus alone with subscribers that re-enter on.                            *)
(***************************************************************************)
EXTENDS Integers, Sequences, FiniteSets, TLC

VARIABLES
    listeners,  \* EventBus: Map evento -> Set of callbacks (insertion ordered)
    removers,   \* the remover closures returned by on() that clients still hold
    nextOnce,   \* number of the next wrapper function once() creates
    called,     \* the once() wrappers that have been invoked by some emit
    cache,      \* CacheManager: Map clave -> {valor, expiracion, timeoutId}
    stats,      \* CacheManager: {hits, misses}
    timers,     \* host timer table: the setTimeout callbacks still pending
    now,        \* Date.now()
    hist,       \* the latest set() of TrackedKey, until a del() or clear() follows it
    emits,      \* cache:hit and cache:miss emissions made by get since the last clear()
    last        \* what the latest call did: arguments, result, deliveries

vars == <<listeners, removers, nextOnce, called, cache, stats, timers, now, hist, emits, last>>

busVars == <<listeners, removers, nextOnce, called>>

cacheVars == <<cache, stats, timers, now, hist, emits>>

(***************************************************************************)
(* Bounds                                                                  *)
(***************************************************************************)
MaxTime == 2

MaxTimers == 2

MaxCount == 2

MaxOnce == 1

MaxRemovers == 1

MaxSubs == 2

(***************************************************************************)
(* Input universes                                                         *)
(***************************************************************************)
\* event names used by the clients of the bus alone
BusEvents == {"e", "f"}

\* values that are strings but blank after trim()
BlankStrings == {"", " "}

\* tokens standing for values whose typeof is not "string"
NotStrings == {"<42>"}

\* tokens standing for callbacks whose typeof is not "function"
NotFunctions == {"<null>"}

\* client functions subscribed to the bus; their bodies are in CallFn
Fns == {"p1", "thr", "adder"}

\* (evento, callback) pairs subscribed to the cache events
CacheOnInputs == {<<"cache:hit", "thr">>, <<"cache:hit", "p1">>,
                  <<"cache:miss", "thr">>, <<"cache:miss", "p1">>}

\* (evento, callback) pairs that validarTipo rejects
InvalidPairs == {<<"", "p1">>, <<" ", "p1">>, <<"<42>", "p1">>, <<"e", "<null>">>}

\* (evento, callback) pairs given to on and off: every client function on "e",
\* one on "f"
OnInputs == ({"e"} \X Fns) \cup {<<"f", "p1">>}

\* (evento, callback) pairs given to once
OnceInputs == {"e"} \X Fns

\* positional argument lists given to emit
Datos == {<<"x">>, <<"y", "x">>}

Keys == {"a", "b"}

\* the clave whose set() history is recorded in hist
TrackedKey == "a"

\* ttl arguments given to set; -1 stands for every value set normalises to 0
TtlInputs == {-1, 0, 1, 2}

(***************************************************************************)
(* JavaScript primitives used by the code                                  *)
(***************************************************************************)
TypeOf(x) ==
    IF x \in NotStrings THEN "number"
    ELSE IF x \in NotFunctions THEN "object"
    ELSE IF x \in Fns THEN "function"
    ELSE "string"

Trim(s) == IF s \in BlankStrings THEN "" ELSE s

StrLen(s) == IF s = "" THEN 0 ELSE 1

\* a registered callback: a client function, or the wrapper number `once` of one
Fn(f) == [fn |-> f, once |-> 0]

Wrapper(f, n) == [fn |-> f, once |-> n]

\* the hole a deleted element leaves in a Set that is being iterated
Empty == [fn |-> "<empty>", once |-> 0]

SetHas(entries, x) == \E i \in DOMAIN entries : entries[i] = x

\* an Array push in place of Set.add
SetAddAlways(entries, x) == Append(entries, x)

SetAdd(entries, x) == IF SetHas(entries, x) THEN entries ELSE Append(entries, x)

\* an Array splice in place of Set.delete: the later elements move up while
\* the iteration goes on
SetDeleteSplice(entries, x) == SelectSeq(entries, LAMBDA s : s # x)

SetDelete(entries, x) ==
    [i \in DOMAIN entries |-> IF entries[i] = x THEN Empty ELSE entries[i]]

Compact(entries) == SelectSeq(entries, LAMBDA s : s # Empty)

SetSize(entries) == Len(Compact(entries))

MapRemove(m, k) == [x \in (DOMAIN m) \ {k} |-> m[x]]

MapPut(m, k, v) == [x \in (DOMAIN m) \cup {k} |-> IF x = k THEN v ELSE m[x]]

EmptyMap == [x \in {} |-> <<>>]

(***************************************************************************)
(* EventBus                                                                *)
(***************************************************************************)
\* validarTipo without the trim() of its first test
validarTipoNoTrim(evento, callback) ==
    \/ TypeOf(evento) # "string"
    \/ TypeOf(callback) # "function"

\* validarTipo: TRUE when it throws
validarTipo(evento, callback) ==
    \/ TypeOf(evento) # "string"
    \/ StrLen(Trim(evento)) = 0
    \/ TypeOf(callback) # "function"

\* the body of each client function, run on the Set being iterated by emit:
\* what it does to that Set and whether it throws
CallFn(f, entries) ==
    CASE f = "thr"     -> [entries |-> entries, threw |-> TRUE]
      [] f = "adder"   -> [entries |-> SetAdd(entries, Fn("p1")), threw |-> FALSE]
      [] OTHER         -> [entries |-> entries, threw |-> FALSE]

\* callback(...datos): a client function, or the wrapper built by once, which
\* calls the client function and then its own remover
Invoke(sub, entries) ==
    IF sub.once = 0 THEN CallFn(sub.fn, entries)
    ELSE LET r == CallFn(sub.fn, entries)
         IN  IF r.threw THEN r
             ELSE [entries |-> SetDelete(r.entries, sub), threw |-> FALSE]

\* callback(datos) in place of callback(...datos): the argument list handed
\* over as one array
TryCallbackNoSpread(sub, datos, st) ==
    LET r == Invoke(sub, st.entries)
    IN  [entries |-> r.entries,
         invoked |-> Append(st.invoked, [sub |-> sub, datos |-> <<datos>>, threw |-> r.threw]),
         escaped |-> FALSE]

\* the try/catch around one callback in emit, without the catch
TryCallbackNoCatch(sub, datos, st) ==
    LET r == Invoke(sub, st.entries)
    IN  [entries |-> r.entries,
         invoked |-> Append(st.invoked, [sub |-> sub, datos |-> datos, threw |-> r.threw]),
         escaped |-> r.threw]

\* the try/catch around one callback in emit
TryCallback(sub, datos, st) ==
    LET r == Invoke(sub, st.entries)
    IN  [entries |-> r.entries,
         invoked |-> Append(st.invoked, [sub |-> sub, datos |-> datos, threw |-> r.threw]),
         escaped |-> FALSE]

\* callbacks.forEach: visits the live Set by position, skipping holes and
\* reaching the elements appended while it runs
RECURSIVE ForEach(_, _, _)
ForEach(datos, st, i) ==
    IF st.escaped \/ i > Len(st.entries) THEN st
    ELSE IF st.entries[i] = Empty THEN ForEach(datos, st, i + 1)
    ELSE ForEach(datos, TryCallback(st.entries[i], datos, st), i + 1)

\* emit(evento, ...datos)
EmitRun(ls, evento, datos) ==
    IF TypeOf(evento) # "string"
    THEN [ls |-> ls, invoked |-> <<>>, threw |-> TRUE]
    ELSE IF evento \in DOMAIN ls
    THEN LET st == ForEach(datos, [entries |-> ls[evento], invoked |-> <<>>, escaped |-> FALSE], 1)
         IN  [ls |-> [ls EXCEPT ![evento] = Compact(st.entries)],
              invoked |-> st.invoked, threw |-> st.escaped]
    ELSE [ls |-> ls, invoked |-> <<>>, threw |-> FALSE]

\* on(evento, callback) after validation: the registry with callback added
OnRun(ls, evento, sub) ==
    LET base == IF evento \in DOMAIN ls THEN ls ELSE MapPut(ls, evento, <<>>)
    IN  [base EXCEPT ![evento] = SetAdd(base[evento], sub)]

\* the closure returned by on: TRUE when calling it throws
RemoverThrows(ls, evento) == evento \notin DOMAIN ls

RemoverRun(ls, evento, sub) ==
    IF RemoverThrows(ls, evento) THEN ls
    ELSE [ls EXCEPT ![evento] = Compact(SetDelete(ls[evento], sub))]

\* off(evento, callback)
OffRun(ls, evento, sub) ==
    IF evento \in DOMAIN ls
    THEN [ls EXCEPT ![evento] = Compact(SetDelete(ls[evento], sub))]
    ELSE ls

\* debug(): evento -> number of callbacks
BusDebugRun(ls) == [ev \in DOMAIN ls |-> SetSize(ls[ev])]

RECURSIVE SumSizes(_, _)
SumSizes(sizes, evs) ==
    IF evs = {} THEN 0
    ELSE LET ev == CHOOSE x \in evs : TRUE
         IN  sizes[ev] + SumSizes(sizes, evs \ {ev})

\* number of callbacks registered over all events
Registered(ls) == SumSizes(BusDebugRun(ls), DOMAIN ls)

\* the record kept of the latest call
Obs(op, arg, ret, threw) ==
    [op |-> op, arg |-> arg, ret |-> ret, threw |-> threw,
     datos |-> <<>>, invoked |-> <<>>, snap |-> <<>>, emitted |-> <<>>,
     changed |-> FALSE, again |-> FALSE, dHits |-> 0, dMisses |-> 0,
     present |-> FALSE, expired |-> FALSE, dup |-> FALSE, dbg |-> <<>>,
     seen |-> [hits |-> 0, misses |-> 0]]

\* the removers held, those of (evento, sub) marked as coming from on() calls
\* repeated for a callback already registered, or no longer so
Mark(rs, evento, sub, twice) ==
    {IF r.evento = evento /\ r.sub = sub THEN [r EXCEPT !.twice = twice] ELSE r : r \in rs}

\* the once() wrappers among the callbacks an emission invoked
WrappersIn(invoked) == {invoked[i].sub.once : i \in DOMAIN invoked} \ {0}

On(evento, callback, keep) ==
    /\ IF validarTipo(evento, callback)
       THEN /\ UNCHANGED busVars
            /\ keep = FALSE
            /\ last' = Obs("on", "", "", TRUE)
       ELSE /\ Registered(listeners) < MaxSubs
            /\ listeners' = OnRun(listeners, evento, Fn(callback))
            /\ LET already == evento \in DOMAIN listeners /\ SetHas(listeners[evento], Fn(callback))
                   held == IF already THEN Mark(removers, evento, Fn(callback), TRUE) ELSE removers
               IN  removers' = IF keep /\ Cardinality(held) < MaxRemovers
                               THEN held \cup {[evento |-> evento, sub |-> Fn(callback),
                                                 used |-> FALSE, twice |-> already]}
                               ELSE held
            /\ UNCHANGED <<nextOnce, called>>
            /\ last' = [Obs("on", evento, callback, FALSE) EXCEPT
                            !.changed = (listeners' # listeners)]
    /\ UNCHANGED cacheVars

Once(evento, callback) ==
    /\ IF validarTipo(evento, callback)
       THEN /\ UNCHANGED busVars
            /\ last' = Obs("once", "", "", TRUE)
       ELSE /\ nextOnce <= MaxOnce
            /\ Registered(listeners) < MaxSubs
            /\ listeners' = OnRun(listeners, evento, Wrapper(callback, nextOnce))
            /\ nextOnce' = nextOnce + 1
            /\ UNCHANGED <<removers, called>>
            /\ last' = [Obs("once", evento, callback, FALSE) EXCEPT !.changed = TRUE]
    /\ UNCHANGED cacheVars

Off(evento, callback) ==
    /\ listeners' = OffRun(listeners, evento, Fn(callback))
    /\ removers' = Mark(removers, evento, Fn(callback), FALSE)
    /\ last' = [Obs("off", evento, callback, FALSE) EXCEPT !.changed = (listeners' # listeners)]
    /\ UNCHANGED <<nextOnce, called>>
    /\ UNCHANGED cacheVars

Remover(r) ==
    /\ r \in removers
    /\ listeners' = RemoverRun(listeners, r.evento, r.sub)
    /\ removers' = Mark((removers \ {r}) \cup {[r EXCEPT !.used = TRUE]},
                         r.evento, r.sub, FALSE)
    /\ last' = [Obs("remover", r.evento, r.sub.fn, RemoverThrows(listeners, r.evento)) EXCEPT
                           !.changed = (listeners' # listeners),
                           !.again = r.used,
                           !.dup = r.twice,
                           !.present = (r.evento \in DOMAIN listeners)]
    /\ UNCHANGED <<nextOnce, called>>
    /\ UNCHANGED cacheVars

Emit(evento, datos) ==
    /\ LET r == EmitRun(listeners, evento, datos)
       IN  /\ listeners' = r.ls
           /\ called' = called \cup WrappersIn(r.invoked)
           /\ last' = [Obs("emit", evento, "", r.threw) EXCEPT
                           !.datos = datos,
                           !.invoked = r.invoked,
                           !.snap = IF evento \in DOMAIN listeners THEN listeners[evento] ELSE <<>>,
                           !.changed = (listeners' # listeners)]
    /\ UNCHANGED <<removers, nextOnce>>
    /\ UNCHANGED cacheVars

BusDebug ==
    /\ last' = [Obs("busdebug", "", "", FALSE) EXCEPT !.dbg = BusDebugRun(listeners)]
    /\ UNCHANGED busVars
    /\ UNCHANGED cacheVars

BusClear ==
    /\ listeners' = EmptyMap
    /\ removers' = {[r EXCEPT !.twice = FALSE] : r \in removers}
    /\ last' = [Obs("busclear", "", "", FALSE) EXCEPT !.changed = (listeners # EmptyMap)]
    /\ UNCHANGED <<nextOnce, called>>
    /\ UNCHANGED cacheVars

(***************************************************************************)
(* CacheManager                                                            *)
(***************************************************************************)
\* clearTimeout(id): the host drops the pending callback
ClearTimeout(tm, id) == {t \in tm : t.id # id}

\* setTimeout(callback, ttl) called at time ahora for clave: the host's record
\* set without the setTimeout of lines 160-163
SetTimeoutNotArmed(tm, id, clave, ahora, ttl) == tm

SetTimeout(tm, id, clave, ahora, ttl) ==
    tm \cup {[id |-> id, clave |-> clave, due |-> ahora + ttl]}

\* the handle setTimeout returns: distinct from every handle still pending or
\* still stored in an entry
RECURSIVE FreshFrom(_, _)
FreshFrom(used, n) == IF n \in used THEN FreshFrom(used, n + 1) ELSE n

FreshTimer(c, tm) ==
    FreshFrom({t.id : t \in tm} \cup {c[k].timeoutId : k \in DOMAIN c}, 1)

\* limpiarEntrada without the clearTimeout
limpiarEntradaNoClear(c, tm, clave) ==
    IF clave \in DOMAIN c
    THEN [cache |-> MapRemove(c, clave), timers |-> tm]
    ELSE [cache |-> c, timers |-> tm]

\* limpiarEntrada(clave)
limpiarEntrada(c, tm, clave) ==
    IF clave \in DOMAIN c
    THEN [cache |-> MapRemove(c, clave),
          timers |-> IF c[clave].timeoutId # 0
                     THEN ClearTimeout(tm, c[clave].timeoutId)
                     ELSE tm]
    ELSE [cache |-> c, timers |-> tm]

\* set: TRUE when the clave check throws
ClaveInvalida(clave) == TypeOf(clave) # "string" \/ StrLen(Trim(clave)) = 0

\* set: ttl normalised
NormTtl(ttl) == IF ttl < 0 THEN 0 ELSE ttl

\* set: expiracion of the new entry
Expiracion(ahora, ttl) == IF ttl > 0 THEN ahora + ttl ELSE 0

\* get: entrada.expiracion > 0 && entrada.expiracion < ahora
Expired(entrada, ahora) == entrada.expiracion > 0 /\ entrada.expiracion < ahora

\* get that reports every outcome as a hit
GetEventoAlwaysHit(hit) == "cache:hit"

\* get: the event emitted
GetEvento(hit) == IF hit THEN "cache:hit" ELSE "cache:miss"

\* get that tears the entry down on every read
GetStoreReapOnRead(c, tm, clave, ahora) ==
    IF clave \in DOMAIN c THEN limpiarEntrada(c, tm, clave)
    ELSE [cache |-> c, timers |-> tm]

\* get: the store it leaves, the entry torn down when found expired
GetStore(c, tm, clave, ahora) ==
    IF clave \in DOMAIN c /\ Expired(c[clave], ahora)
    THEN limpiarEntrada(c, tm, clave)
    ELSE [cache |-> c, timers |-> tm]

\* clear without the reset of misses
ClearedStatsKeepMisses(st) == [hits |-> 0, misses |-> st.misses]

\* clear: stats.hits = 0; stats.misses = 0
ClearedStats(st) == [hits |-> 0, misses |-> 0]

\* no emission made yet
NoEmits == [ev \in {"cache:hit", "cache:miss"} |-> 0]

\* get with eventBus.emit ahead of the increment of the counter
StatsAtEmitBefore(before, after) == before

\* the counters a subscriber finds when get emits: the increment (lines 186,
\* 197) comes before eventBus.emit (lines 187, 198)
StatsAtEmit(before, after) == after

\* clear as cache.clear() alone, no entry torn down
ClearAllOnlyMap(c, tm, ks) == [cache |-> EmptyMap, timers |-> tm]

\* clear: Array.from(cache.keys()).forEach(limpiarEntrada); cache.clear()
RECURSIVE ClearAll(_, _, _)
ClearAll(c, tm, ks) ==
    IF ks = {} THEN [cache |-> EmptyMap, timers |-> tm]
    ELSE LET k == CHOOSE x \in ks : TRUE
             r == limpiarEntrada(c, tm, k)
         IN  ClearAll(r.cache, r.timers, ks \ {k})

\* del that reports true without looking
DelReturnAlways(c, clave) == "true"

\* del: the value returned
DelReturn(c, clave) == IF clave \in DOMAIN c THEN "true" ELSE "false"

\* hist: live = set and neither deleted nor cleared since; due = setTime + ttl,
\* 0 when ttl = 0; prevDue = due of the set() this one replaced, 0 when none
NoHist == [live |-> FALSE, valor |-> "", due |-> 0, prevDue |-> 0]

\* track: whether hist follows this call
Set(clave, valor, ttlIn, track) ==
    /\ IF ClaveInvalida(clave)
       THEN /\ UNCHANGED cacheVars
            /\ last' = Obs("set", "", "", TRUE)
       ELSE LET ttl == NormTtl(ttlIn)
                cl == limpiarEntrada(cache, timers, clave)
                id == IF ttl > 0 THEN FreshTimer(cl.cache, cl.timers) ELSE 0
            IN  /\ ttl > 0 => Cardinality(cl.timers) < MaxTimers
                /\ timers' = IF ttl > 0 THEN SetTimeout(cl.timers, id, clave, now, ttl)
                             ELSE cl.timers
                /\ cache' = MapPut(cl.cache, clave,
                                   [valor |-> valor, expiracion |-> Expiracion(now, ttl),
                                    timeoutId |-> id])
                /\ hist' = IF track /\ clave = TrackedKey
                            THEN [live |-> TRUE, valor |-> valor,
                                  due |-> IF ttl > 0 THEN now + ttl ELSE 0,
                                  prevDue |-> hist.due]
                            ELSE hist
                /\ UNCHANGED <<stats, now, emits>>
                /\ last' = [Obs("set", clave, "", FALSE) EXCEPT
                                !.present = (clave \in DOMAIN cache)]
    /\ UNCHANGED busVars

Get(clave) ==
    /\ stats.hits + stats.misses < MaxCount
    /\ LET has == clave \in DOMAIN cache
           expired == has /\ Expired(cache[clave], now)
           hit == has /\ ~expired
           cl == GetStore(cache, timers, clave, now)
           evento == GetEvento(hit)
           datos == IF hit THEN <<clave, cache[clave].valor>> ELSE <<clave>>
           r == EmitRun(listeners, evento, datos)
       IN  /\ cache' = cl.cache
           /\ timers' = cl.timers
           /\ stats' = IF hit THEN [stats EXCEPT !.hits = @ + 1]
                       ELSE [stats EXCEPT !.misses = @ + 1]
           /\ emits' = [emits EXCEPT ![evento] = @ + 1]
           /\ listeners' = r.ls
           /\ called' = called \cup WrappersIn(r.invoked)
           /\ last' = [Obs("get", clave, IF r.threw THEN "" ELSE IF hit THEN cache[clave].valor ELSE "null", r.threw)
                       EXCEPT !.datos = datos,
                              !.invoked = r.invoked,
                              !.snap = IF evento \in DOMAIN listeners THEN listeners[evento] ELSE <<>>,
                              !.emitted = <<evento>>,
                              !.dHits = stats'.hits - stats.hits,
                              !.dMisses = stats'.misses - stats.misses,
                              !.present = has,
                              !.expired = expired,
                              !.seen = StatsAtEmit(stats, stats')]
    /\ UNCHANGED <<removers, nextOnce, now, hist>>

Del(clave, track) ==
    /\ LET cl == IF clave \in DOMAIN cache THEN limpiarEntrada(cache, timers, clave)
                 ELSE [cache |-> cache, timers |-> timers]
       IN  /\ cache' = cl.cache
           /\ timers' = cl.timers
    /\ hist' = IF track /\ clave = TrackedKey THEN NoHist ELSE hist
    /\ last' = [Obs("del", clave, DelReturn(cache, clave), FALSE) EXCEPT
                    !.present = (clave \in DOMAIN cache),
                    !.expired = (clave \in DOMAIN cache /\ Expired(cache[clave], now))]
    /\ UNCHANGED <<stats, now, emits>>
    /\ UNCHANGED busVars

CacheDebug ==
    /\ last' = [Obs("debug", "", "", FALSE) EXCEPT
                    !.dbg = [size |-> Cardinality(DOMAIN cache), stats |-> stats,
                             keys |-> DOMAIN cache]]
    /\ UNCHANGED cacheVars
    /\ UNCHANGED busVars

CacheClear(track) ==
    /\ LET r == ClearAll(cache, timers, DOMAIN cache)
       IN  /\ cache' = r.cache
           /\ timers' = r.timers
    /\ stats' = ClearedStats(stats)
    /\ emits' = NoEmits
    /\ hist' = IF track THEN NoHist ELSE hist
    /\ last' = [Obs("clear", "", "", FALSE) EXCEPT
                    !.present = (cache # EmptyMap),
                    !.changed = (timers # {}),
                    !.dHits = stats'.hits - stats.hits,
                    !.dMisses = stats'.misses - stats.misses]
    /\ UNCHANGED now
    /\ UNCHANGED busVars

\* a host that runs the callback without waiting for the delay
TimerDueAtOnce(t, ahora) == TRUE

\* setTimeout(callback, ttl): the host runs the callback once ttl has elapsed
TimerDue(t, ahora) == ahora >= t.due

\* the host runs the callback armed by set: cache.delete(clave)
TimerFire(t) ==
    /\ t \in timers
    /\ TimerDue(t, now)
    /\ cache' = MapRemove(cache, t.clave)
    /\ timers' = timers \ {t}
    /\ last' = [Obs("timer", t.clave, "", FALSE) EXCEPT !.present = (t.clave \in DOMAIN cache)]
    /\ UNCHANGED <<stats, now, hist, emits>>
    /\ UNCHANGED busVars

\* a millisecond passes
Tick ==
    /\ now < MaxTime
    /\ now' = now + 1
    /\ last' = Obs("tick", "", "", FALSE)
    /\ UNCHANGED <<cache, stats, timers, hist, emits>>
    /\ UNCHANGED busVars

Init ==
    /\ listeners = EmptyMap
    /\ removers = {}
    /\ nextOnce = 1
    /\ called = {}
    /\ cache = EmptyMap
    /\ stats = [hits |-> 0, misses |-> 0]
    /\ timers = {}
    /\ now = 0
    /\ hist = NoHist
    /\ emits = NoEmits
    /\ last = Obs("init", "", "", FALSE)

\* (clave, valor) pairs given to set; the last three are rejected
SetInputs == {<<"a", "v1">>, <<"a", "v2">>, <<"b", "v1">>,
              <<"", "v1">>, <<" ", "v1">>, <<"<42>", "v1">>}

\* the cache alone, its set() history recorded
Next ==
    \/ \E in \in SetInputs, ttl \in TtlInputs : Set(in[1], in[2], ttl, TRUE)
    \/ \E k \in Keys : Get(k)
    \/ \E k \in Keys : Del(k, TRUE)
    \/ CacheDebug
    \/ CacheClear(TRUE)
    \/ \E t \in timers : TimerFire(t)
    \/ Tick

Spec == Init /\ [][Next]_vars

\* the cache under a clock that advances and a host that runs the callbacks
\* that are due
SpecFair ==
    /\ Init
    /\ [][Next]_vars
    /\ WF_vars(Tick)
    /\ WF_vars(\E t \in timers : TimerFire(t))

\* the cache with subscribers to its events
NextEvents ==
    \/ \E in \in SetInputs, ttl \in TtlInputs : Set(in[1], in[2], ttl, FALSE)
    \/ \E k \in Keys : Get(k)
    \/ \E k \in Keys : Del(k, FALSE)
    \/ CacheClear(FALSE)
    \/ \E t \in timers : TimerFire(t)
    \/ Tick
    \/ \E in \in CacheOnInputs : On(in[1], in[2], FALSE)

SpecEvents == Init /\ [][NextEvents]_vars

\* (evento, callback) pairs given to on by the clients of the bus and the cache
MixedOnInputs == {<<"e", "p1">>, <<"cache:hit", "thr">>, <<"cache:miss", "p1">>}

\* the calls that validate their arguments, on a bus and a cache in use
NextValid ==
    \/ \E in \in SetInputs, ttl \in {0, 1} : Set(in[1], in[2], ttl, FALSE)
    \/ \E k \in Keys : Get(k)
    \/ \E in \in MixedOnInputs \cup InvalidPairs : On(in[1], in[2], FALSE)
    \/ \E in \in {<<"e", "thr">>} \cup InvalidPairs : Once(in[1], in[2])
    \/ \E ev \in {"e", ""} \cup NotStrings, d \in Datos : Emit(ev, d)

SpecValid == Init /\ [][NextValid]_vars

(***************************************************************************)
(* Claims                                                                  *)
(***************************************************************************)
\* the latest call was a get of the tracked clave, whose latest set carried a
\* ttl > 0 and has been neither deleted nor cleared
GotTracked == last.op = "get" /\ last.arg = TrackedKey /\ hist.live /\ hist.due > 0

\* C1: a get at now >= setTime + T of a clave set with ttl T > 0 (not deleted
\* since) returns absent and counts a miss, whether or not the timer has fired
C1_GetAtOrAfterDeadlineMisses ==
    (GotTracked /\ now >= hist.due) => (last.ret = "null" /\ last.dMisses = 1)

\* C2: a get at now < setTime + T of a clave set with ttl T > 0 (not replaced,
\* deleted or cleared since) returns the stored value and adds 1 to hits
C2_GetBeforeDeadlineHits ==
    (GotTracked /\ now < hist.due) =>
        (last.ret = hist.valor /\ last.dHits = 1 /\ last.dMisses = 0)

C2_Witness ==
    /\ GotTracked
    /\ now > 0
    /\ now < hist.due
    /\ last.ret = hist.valor

\* C3: every pending timer belongs to the entry stored under its clave, the
\* entry that armed it, so no clave has two pending timers and no pending
\* timer is left for an absent or replaced entry
C3_OneLiveTimerPerEntry ==
    /\ \A t \in timers :
          /\ t.clave \in DOMAIN cache
          /\ cache[t.clave].timeoutId = t.id
          /\ cache[t.clave].expiracion = t.due
    /\ \A t1, t2 \in timers : t1.clave = t2.clave => t1 = t2

\* a set replaced the tracked entry while the timer of that entry was pending,
\* and armed a timer of its own
C3_Witness ==
    /\ last.op = "set"
    /\ last.arg = TrackedKey
    /\ last.present
    /\ hist.prevDue > now
    /\ cache[TrackedKey].timeoutId # 0

\* the tracked clave was set with a ttl, set again, the first deadline has
\* passed and the second (if any) has not, and the latest call is a get of it
GotAfterReplace ==
    /\ last.op = "get"
    /\ last.arg = TrackedKey
    /\ hist.live
    /\ hist.prevDue > 0
    /\ now >= hist.prevDue
    /\ (hist.due = 0 \/ now < hist.due)

\* C4: after set(k, v1, T1) then set(k, v2, T2), a get(k) once T1 has elapsed
\* and before the second entry's own deadline (or with T2 = 0) returns v2
C4_ReplacedTimerNeverRemoves == GotAfterReplace => last.ret = hist.valor

C4_Witness == GotAfterReplace /\ last.ret = hist.valor /\ hist.due > 0

\* C5: counters start at 0; a get adds exactly 1 to exactly one counter, hits
\* when it returns a value and misses when it returns absent; set, del, debug
\* and timer firings leave them alone; clear resets both to 0
C5_HitMissAccounting ==
    /\ stats = [hits |-> 0, misses |-> 0]
    /\ [][/\ last'.op = "get" =>
               IF last'.ret = "null"
               THEN stats' = [stats EXCEPT !.misses = @ + 1]
               ELSE stats' = [stats EXCEPT !.hits = @ + 1]
          /\ last'.op \in {"set", "del", "debug", "timer", "tick"} => stats' = stats
          /\ last'.op = "clear" => stats' = [hits |-> 0, misses |-> 0]]_vars

\* a get that found its entry expired, after which one hit and one miss are
\* counted
C5_Witness ==
    /\ last.op = "get"
    /\ stats.hits = 1
    /\ stats.misses = 1
    /\ last.expired

\* C6: after once(e, cb), the emissions of e invoke cb exactly once in all:
\* every wrapper registered for e is invoked by the emission with its
\* arguments, and no wrapper already invoked is invoked again
C6_OnceInvokedExactlyOnce ==
    [][last'.op = "emit" =>
          /\ \A i \in DOMAIN last'.invoked : last'.invoked[i].sub.once \notin called
          /\ \A i \in DOMAIN last'.snap :
                last'.snap[i].once > 0 =>
                    \E j \in DOMAIN last'.invoked :
                        /\ last'.invoked[j].sub = last'.snap[i]
                        /\ last'.invoked[j].datos = last'.datos]_vars

\* C7: a subscriber that throws stops neither the delivery to the other
\* subscribers of the event nor get: get returns normally, with the stored
\* value on a hit and absent on a miss
C7_SubscriberIsolation ==
    last.op = "get" =>
        /\ ~last.threw
        /\ \A i \in DOMAIN last.snap :
              \E j \in DOMAIN last.invoked : last.invoked[j].sub = last.snap[i]
        /\ IF last.dHits = 1
           THEN last.arg \in DOMAIN cache /\ last.ret = cache[last.arg].valor
           ELSE last.ret = "null"

\* a get delivered to a subscriber that threw and then to another one
C7_Witness ==
    /\ last.op = "get"
    /\ \E i, j \in DOMAIN last.invoked :
          /\ i < j
          /\ last.invoked[i].threw
          /\ ~last.invoked[j].threw

\* C8: calling a remover never fails, and calling it a second time, or when
\* its event is no longer in the registry, leaves the registry unchanged
C8_RemoverIdempotentNeverFails ==
    last.op = "remover" =>
        /\ ~last.threw
        /\ (last.again \/ ~last.present) => ~last.changed

\* C9: one emit invokes exactly the callbacks registered for the event when
\* it was called, each once, whatever the subscribers do to the registry
C9_SnapshotDelivery ==
    (last.op = "emit" /\ ~last.threw) =>
        /\ Len(last.invoked) = Len(last.snap)
        /\ \A i \in DOMAIN last.snap :
              \E j \in DOMAIN last.invoked : last.invoked[j].sub = last.snap[i]
        /\ \A j \in DOMAIN last.invoked :
              \E i \in DOMAIN last.snap : last.invoked[j].sub = last.snap[i]

\* C10: del(k) returns true exactly when k is stored at the call, expired or
\* not; afterwards k is absent and has no pending timer; del changes neither
\* counter and invokes no subscriber
C10_DelContract ==
    [][last'.op = "del" =>
          /\ (last'.ret = "true") <=> (last'.arg \in DOMAIN cache)
          /\ last'.ret \in {"true", "false"}
          /\ last'.arg \notin DOMAIN cache'
          /\ \A t \in timers' : t.clave # last'.arg
          /\ \A k \in DOMAIN cache' : cache'[k] = cache[k]
          /\ DOMAIN cache' = (DOMAIN cache) \ {last'.arg}
          /\ stats' = stats
          /\ listeners' = listeners
          /\ last'.invoked = <<>>
          /\ last'.emitted = <<>>]_vars

\* a del of an entry whose deadline had passed and that nothing had reaped,
\* while subscribers were registered
C10_Witness ==
    /\ last.op = "del"
    /\ last.ret = "true"
    /\ last.expired
    /\ DOMAIN listeners # {}

\* the latest call was a get that returned absent, counted one miss and
\* emitted one cache:miss carrying the clave, leaving the clave out of the
\* store with no pending timer
MissedCleanly ==
    /\ last.ret = "null"
    /\ ~last.threw
    /\ last.dMisses = 1
    /\ last.dHits = 0
    /\ last.emitted = <<"cache:miss">>
    /\ last.datos = <<last.arg>>
    /\ \A j \in DOMAIN last.invoked : last.invoked[j].datos = <<last.arg>>
    /\ last.arg \notin DOMAIN cache
    /\ \A t \in timers : t.clave # last.arg

\* C11: a get that finds its entry expired does what a get of an absent clave
\* does: absent, one miss, one cache:miss with the clave and no cache:hit, and
\* afterwards the clave is not stored and its timer is cancelled
C11_ExpiredGetLikeAbsentGet ==
    (last.op = "get" /\ (last.expired \/ ~last.present)) => MissedCleanly

\* a get found its entry expired and reported it to a subscriber
C11_Witness ==
    /\ last.op = "get"
    /\ last.expired
    /\ last.invoked # <<>>
    /\ MissedCleanly

\* no callback is held twice by the Set of an event
NoDuplicates ==
    \A ev \in DOMAIN listeners :
        \A i, j \in DOMAIN listeners[ev] :
            listeners[ev][i] = listeners[ev][j] => i = j

\* C12 as claimed: after two on(e, cb) calls with the same callback, calling
\* one remover leaves the other subscription registered
C12_DuplicateOnIndependent ==
    (last.op = "remover" /\ last.dup /\ ~last.threw) =>
        SetHas(listeners[last.arg], Fn(last.ret))

\* C12 as amended: the Set of an event holds a callback once however often
\* on(e, cb) is called, and calling any remover of (e, cb) leaves cb
\* unregistered for e
C12_DuplicateOnSingleSubscription ==
    /\ NoDuplicates
    /\ (last.op = "remover" /\ ~last.threw) =>
           ~SetHas(listeners[last.arg], Fn(last.ret))

\* a remover was called for the first time after on(e, cb) had been called
\* twice
C12_Witness ==
    /\ last.op = "remover"
    /\ last.dup
    /\ ~last.again
    /\ ~last.threw
    /\ last.changed

\* C13: on, once, emit and set raise on the arguments they reject (a call
\* that returns had an event name or clave that is a non-blank string, for
\* emit any string, and for on and once a callback that is a function), and a
\* call that raises leaves registry, entries, timers and counters as they were
\* and invokes no subscriber
C13_ValidationFailuresLeaveState ==
    [][/\ (last'.op \in {"on", "once", "emit", "set"} /\ last'.threw) =>
              /\ UNCHANGED <<listeners, cache, timers, stats>>
              /\ last'.invoked = <<>>
       /\ (last'.op \in {"on", "once"} /\ ~last'.threw) =>
              /\ last'.arg \notin BlankStrings \cup NotStrings
              /\ last'.ret \in Fns
       /\ (last'.op = "emit" /\ ~last'.threw) => last'.arg \notin NotStrings
       /\ (last'.op = "set" /\ ~last'.threw) =>
              last'.arg \notin BlankStrings \cup NotStrings]_vars

\* set raised while entries, a pending timer, counted reads and subscribers
\* were there to be disturbed
C13_Witness ==
    /\ last.op = "set"
    /\ last.threw
    /\ cache # EmptyMap
    /\ timers # {}
    /\ stats.hits + stats.misses > 0
    /\ Registered(listeners) > 1

\* C14: right after clear() the store is empty, hits = 0, misses = 0 and no
\* timer is pending; and at all times a pending timer is the one recorded in
\* the stored entry of its clave, so a timer armed before a clear is never
\* there to remove an entry set after it
C14_ClearTearsDownAll ==
    /\ last.op = "clear" =>
           /\ cache = EmptyMap
           /\ stats = [hits |-> 0, misses |-> 0]
           /\ timers = {}
    /\ \A t \in timers :
           /\ t.clave \in DOMAIN cache
           /\ cache[t.clave].timeoutId = t.id

\* clear() found entries, a pending timer, a counted hit and a counted miss
C14_Witness ==
    /\ last.op = "clear"
    /\ last.present
    /\ last.changed
    /\ last.dHits < 0
    /\ last.dMisses < 0

\* C15: once an emit has returned, no once() wrapper it invoked is still
\* registered for the event, whether its callback returned or threw
C15_OnceDestroyedAfterFirstInvocation ==
    (last.op = "emit" /\ ~last.threw) =>
        \A j \in DOMAIN last.invoked :
            last.invoked[j].sub.once > 0 =>
                ~SetHas(listeners[last.arg], last.invoked[j].sub)

\* C16: an emit of a string event name raises nothing; it invokes the
\* subscribers registered for the event in their order of registration, each
\* with the emitted arguments in order; whoever it invokes is a subscriber of
\* that event; with no subscriber for the event it invokes nobody
C16_EmitOrderAndArguments ==
    (last.op = "emit" /\ TypeOf(last.arg) = "string") =>
        /\ ~last.threw
        /\ Len(last.invoked) >= Len(last.snap)
        /\ \A i \in DOMAIN last.snap : last.invoked[i].sub = last.snap[i]
        /\ \A j \in DOMAIN last.invoked :
              /\ last.invoked[j].datos = last.datos
              /\ \/ SetHas(last.snap, last.invoked[j].sub)
                 \/ SetHas(listeners[last.arg], last.invoked[j].sub)
        /\ last.snap = <<>> => last.invoked = <<>>

\* two arguments were emitted to two subscribers, the first of which threw
C16_Witness ==
    /\ last.op = "emit"
    /\ Len(last.datos) = 2
    /\ Len(last.snap) = 2
    /\ Len(last.invoked) = 2
    /\ last.invoked[1].threw
    /\ last.invoked[2].sub # last.invoked[1].sub

\* clave holds an entry whose expiry is due at d
StoredUntil(clave, d) == clave \in DOMAIN cache /\ cache[clave].expiracion = d

\* C17: every run of an expiry callback consumes one pending timer that is due
\* and is the timer recorded in the stored entry of its clave, and removes that
\* entry alone, so a timer runs at most once and a cancelled one never touches
\* the store; and when the clock advances and the host runs due callbacks, an
\* entry whose expiry falls within the modelled time (1..MaxTime) is
\* eventually out of the store
C17_ProactiveExpiry ==
    /\ [][last'.op = "timer" =>
             \E t \in timers :
                 /\ t.clave = last'.arg
                 /\ now >= t.due
                 /\ t.clave \in DOMAIN cache
                 /\ cache[t.clave].timeoutId = t.id
                 /\ timers' = timers \ {t}
                 /\ cache' = MapRemove(cache, t.clave)
                 /\ stats' = stats]_vars
    /\ \A k \in Keys : \A d \in 1..MaxTime :
           StoredUntil(k, d) ~> ~StoredUntil(k, d)

\* the timer of an entry ran and removed it while another entry was stored
C17_Witness ==
    /\ last.op = "timer"
    /\ last.present
    /\ last.arg \notin DOMAIN cache
    /\ cache # EmptyMap

\* C18: in an emit during which a once() wrapper removed itself, every
\* subscriber registered for the event when the emit began is invoked exactly
\* once
C18_SelfRemovalSkipsNobody ==
    (/\ last.op = "emit"
     /\ \E j \in DOMAIN last.invoked :
            last.invoked[j].sub.once > 0 /\ ~last.invoked[j].threw) =>
        \A i \in DOMAIN last.snap :
            Cardinality({j \in DOMAIN last.invoked :
                             last.invoked[j].sub = last.snap[i]}) = 1

\* a wrapper registered ahead of a sibling removed itself, and the sibling was
\* invoked after it
C18_Witness ==
    /\ last.op = "emit"
    /\ Len(last.snap) = 2
    /\ last.snap[1].once > 0
    /\ Len(last.invoked) = 2
    /\ ~last.invoked[1].threw
    /\ last.invoked[2].sub = last.snap[2]
    /\ ~SetHas(listeners[last.arg], last.snap[1])
    /\ SetHas(listeners[last.arg], last.snap[2])

\* C19: a get that hits changes nothing but the hits counter: every entry
\* (value, expiry, timer handle) and every pending timer, of the clave read and
\* of the others, is as before, and misses is as before
C19_HitLeavesStoreUnchanged ==
    [][(last'.op = "get" /\ last'.dHits = 1) =>
           /\ cache' = cache
           /\ timers' = timers
           /\ stats' = [stats EXCEPT !.hits = @ + 1]]_vars

\* a hit, after time has passed, on an entry whose timer is pending while
\* another clave is stored
C19_Witness ==
    /\ last.op = "get"
    /\ last.dHits = 1
    /\ now > 0
    /\ \E t \in timers : t.clave = last.arg /\ t.due > now
    /\ \E k \in DOMAIN cache : k # last.arg

\* C20: the cache:hit emissions since the last clear() number hits and the
\* cache:miss emissions number misses; a get adds 1 to one counter and emits
\* the one event of that counter, cache:hit(clave, valor) or cache:miss(clave);
\* its subscribers find the counter incremented, and all of them have been
\* invoked when get returns
C20_CountersAndEventsInStep ==
    /\ emits["cache:hit"] = stats.hits
    /\ emits["cache:miss"] = stats.misses
    /\ last.op = "get" =>
           /\ last.dHits + last.dMisses = 1
           /\ last.dHits \in {0, 1}
           /\ last.emitted = IF last.dHits = 1 THEN <<"cache:hit">> ELSE <<"cache:miss">>
           /\ last.datos = IF last.dHits = 1 THEN <<last.arg, last.ret>> ELSE <<last.arg>>
           /\ last.seen = stats
           /\ \A i \in DOMAIN last.snap :
                  \E j \in DOMAIN last.invoked :
                      /\ last.invoked[j].sub = last.snap[i]
                      /\ last.invoked[j].datos = last.datos

\* a hit delivered to two subscribers of cache:hit after a miss had been
\* counted
C20_Witness ==
    /\ last.op = "get"
    /\ last.dHits = 1
    /\ Len(last.invoked) = 2
    /\ stats.misses = 1
    /\ emits["cache:miss"] = 1

\* the bus alone
NextBus ==
    \/ \E in \in OnInputs \cup InvalidPairs, keep \in BOOLEAN : On(in[1], in[2], keep)
    \/ \E in \in OnceInputs \cup InvalidPairs : Once(in[1], in[2])
    \/ \E in \in OnInputs : Off(in[1], in[2])
    \/ \E r \in removers : Remover(r)
    \/ \E ev \in BusEvents \cup NotStrings, d \in Datos : Emit(ev, d)
    \/ BusDebug
    \/ BusClear

SpecBus == Init /\ [][NextBus]_vars

====
